---- MODULE Spec2Model ----
(***************************************************************************)
(* Model of firmware/src/uavcan_node/esc_controller.cpp: the UAVCAN ESC    *)
(* controller of the sapog firmware.  Two command callbacks                *)
(* (cb_raw_command, cb_rpm_command) translate a received command message   *)
(* into one motor directive; a periodic timer callback (cb_esc) publishes  *)
(* RPMFeedback on every tick and Status decimated to about 1 Hz;           *)
(* init_esc_controller reads the configuration and registers all of them.  *)
(*                                                                         *)
(* Monotonic time is kept in microseconds, as uavcan::MonotonicTime does.  *)
(* Floats are exact rationals [num, den] with den > 0; NaN is a separate   *)
(* value.                                                                  *)
(***************************************************************************)
EXTENDS Integers, Sequences, FiniteSets, TLC

VARIABLES
    publish_rate_ms,    \* unsigned publish_rate_ms
    self_index,         \* unsigned self_index
    command_ttl_ms,     \* unsigned command_ttl_ms
    max_dc_to_start,    \* float max_dc_to_start
    sub_raw_command,    \* TRUE once sub_raw_command.start() succeeded
    sub_rpm_command,    \* TRUE once sub_rpm_command.start() succeeded
    pub_status,         \* "null", "created" (init failed) or "ready"
    pub_rpm_fb,         \* "null", "created" (init failed) or "ready"
    timer_esc,          \* [running, deadline]: the periodic timer
    init_result,        \* <<>> before init_esc_controller ran, then <<its return value>>
    prev_pub_ts,        \* static uavcan::MonotonicTime prev_pub_ts of cb_esc (usec)
    motor_idle,         \* what motor_is_idle() returns
    status_sent_ts,     \* scheduled time of the tick that last broadcast a Status, 0 if none did
    last,               \* inputs read by the most recent callback invocation
    out                 \* what that invocation issued/broadcast, in order

vars == <<publish_rate_ms, self_index, command_ttl_ms, max_dc_to_start,
          sub_raw_command, sub_rpm_command, pub_status, pub_rpm_fb, timer_esc,
          init_result, prev_pub_ts, motor_idle, status_sent_ts, last, out>>

identity == <<publish_rate_ms, self_index, command_ttl_ms, max_dc_to_start>>
registrations == <<sub_raw_command, sub_rpm_command, pub_status, pub_rpm_fb, init_result>>

-----------------------------------------------------------------------------
(* Bounds of the model *)

MaxLen == 2             \* longest command array explored
MaxIndex == 2           \* largest esc_index explored (the parameter allows up to 15)
MaxTime == 2200000      \* last timer deadline explored, usec

-----------------------------------------------------------------------------
(* Program constants *)

RawValueMax == 8191     \* RawCommand::FieldTypes::cmd::RawValueType::max(), int14
RawValueMin == -8192    \* the least value an int14 holds
StatusIntervalMSec == 990

-----------------------------------------------------------------------------
(* Input domains *)

\* int14 slot values: the extremes, zero, and the neighbours of 0.05 * 8191 = 409.55
RawValues == {-8192, 0, 409, 410, 8191}
RpmValues == {-5, 0, 100}

RECURSIVE SeqsUpTo(_, _)
SeqsUpTo(S, n) ==
    IF n = 0 THEN {<<>>}
    ELSE LET shorter == SeqsUpTo(S, n - 1)
         IN  shorter \cup {Append(s, v) : s \in {t \in shorter : Len(t) = n - 1}, v \in S}

RawCommandMsgs == SeqsUpTo(RawValues, MaxLen)
\* one-slot messages holding every value an int14 can take
RawRangeMsgs == {<<v>> : v \in RawValueMin..RawValueMax}
RPMCommandMsgs == SeqsUpTo(RpmValues, MaxLen)

\* values the configuration parameters can be set to, inside their declared ranges
param_pub_rate_ms == {40, 100}
param_esc_index == 0..MaxIndex
param_cmd_ttl_ms == {100, 5000}
param_cmd_start_dc == {[num |-> 5, den |-> 100], [num |-> 1, den |-> 1]}

\* return values of Subscriber::start() and Publisher::init(): 0 or a negative error code
ResultCodes == {0, -1, -2}

\* monotonic clock (usec) at the moment the timer is started
StartTimes == {0, 950500}

\* readbacks
RpmReadings == {0, 3000}            \* motor_get_rpm()
TemperatureReadings == {-1, 0, 300} \* temperature_sensor::get_temperature_K()
DutyCycleReadings == {0, 505}       \* motor_get_duty_cycle(), in thousandths

-----------------------------------------------------------------------------
(* Floats as rationals *)

Rat(n, d) == [num |-> n, den |-> d]
RatLeq(a, b) == a.num * b.den <= b.num * a.den
RatLt(a, b) == a.num * b.den < b.num * a.den
Zero == Rat(0, 1)
One == Rat(1, 1)
NaN == [nan |-> TRUE]
Float(v) == [nan |-> FALSE, v |-> v]

-----------------------------------------------------------------------------
(* uavcan::MonotonicDuration *)

fromMSec(ms) == ms * 1000

\* C++ integer division truncates toward zero
toMSec(usec) == IF usec >= 0 THEN usec \div 1000 ELSE -((-usec) \div 1000)

-----------------------------------------------------------------------------
(* Motor directives *)

Stop == [type |-> "Stop"]
SetDutyCycle(dc, ttl) == [type |-> "SetDutyCycle", dc |-> dc, ttl |-> ttl]
SetRpm(rpm, ttl) == [type |-> "SetRpm", rpm |-> rpm, ttl |-> ttl]

\* the motor is idle after motor_stop() and running after a set-point was given
motor_idle_after(directives, idle) ==
    IF directives = <<>> THEN idle
    ELSE directives[Len(directives)].type = "Stop"

-----------------------------------------------------------------------------
(* cb_raw_command *)

\* the divisor taken one bit short
scaled_dc_of_short_max(msg) == Rat(msg[self_index + 1], 4095)

\* msg.cmd[self_index] / float(RawValueType::max()); C++ indexes from 0
scaled_dc_of(msg) == Rat(msg[self_index + 1], RawValueMax)

\* the startup gate left out
accept_of_no_gate(idle, scaled_dc) == TRUE

\* the startup gate applied to a running motor too
accept_of_always_gated(idle, scaled_dc) == RatLeq(scaled_dc, max_dc_to_start)

accept_of(idle, scaled_dc) ==
    (~idle) \/ (idle /\ RatLeq(scaled_dc, max_dc_to_start))

\* zero taken for a set-point: >= 0 in place of > 0
raw_command_calls_zero_runs(msg, idle) ==
    IF Len(msg) <= self_index
    THEN <<Stop>>
    ELSE LET scaled_dc == scaled_dc_of(msg)
             accept == accept_of(idle, scaled_dc)
         IN  IF accept /\ RatLeq(Zero, scaled_dc)
             THEN <<SetDutyCycle(scaled_dc, command_ttl_ms)>>
             ELSE <<Stop>>

\* the else lost: motor_stop() follows the set-point too
raw_command_calls_no_else(msg, idle) ==
    IF Len(msg) <= self_index
    THEN <<Stop>>
    ELSE LET scaled_dc == scaled_dc_of(msg)
             accept == accept_of(idle, scaled_dc)
         IN  IF accept /\ RatLt(Zero, scaled_dc)
             THEN <<SetDutyCycle(scaled_dc, command_ttl_ms), Stop>>
             ELSE <<Stop>>

\* the publish period passed for the command TTL
raw_command_calls_wrong_ttl(msg, idle) ==
    IF Len(msg) <= self_index
    THEN <<Stop>>
    ELSE LET scaled_dc == scaled_dc_of(msg)
             accept == accept_of(idle, scaled_dc)
         IN  IF accept /\ RatLt(Zero, scaled_dc)
             THEN <<SetDutyCycle(scaled_dc, publish_rate_ms)>>
             ELSE <<Stop>>

\* the motor calls made by cb_raw_command, in order
raw_command_calls(msg, idle) ==
    IF Len(msg) <= self_index
    THEN <<Stop>>
    ELSE LET scaled_dc == scaled_dc_of(msg)
             accept == accept_of(idle, scaled_dc)
         IN  IF accept /\ RatLt(Zero, scaled_dc)
             THEN <<SetDutyCycle(scaled_dc, command_ttl_ms)>>
             ELSE <<Stop>>

\* cb_raw_command invoked with one of the given messages
raw_command_step(msgs) ==
    /\ sub_raw_command
    /\ \E msg \in msgs :
         LET calls == raw_command_calls(msg, motor_idle)
         IN  /\ out' = calls
             /\ motor_idle' = motor_idle_after(calls, motor_idle)
             /\ last' = [handler |-> "raw", size |-> Len(msg),
                         slot |-> IF Len(msg) <= self_index THEN 0 ELSE msg[self_index + 1],
                         scaled |-> IF Len(msg) <= self_index THEN Zero ELSE scaled_dc_of(msg),
                         idle |-> motor_idle]
    /\ UNCHANGED <<identity, registrations, timer_esc, prev_pub_ts, status_sent_ts>>

cb_raw_command == raw_command_step(RawCommandMsgs)

-----------------------------------------------------------------------------
(* cb_rpm_command *)

\* an undersized message ignored: return without motor_stop()
rpm_command_calls_silent_guard(msg) ==
    IF Len(msg) <= self_index
    THEN <<>>
    ELSE LET rpm == msg[self_index + 1]
         IN  IF rpm > 0
             THEN <<SetRpm(rpm, command_ttl_ms)>>
             ELSE <<Stop>>

\* zero taken for a set-point: >= 0 in place of > 0
rpm_command_calls_zero_runs(msg) ==
    IF Len(msg) <= self_index
    THEN <<Stop>>
    ELSE LET rpm == msg[self_index + 1]
         IN  IF rpm >= 0
             THEN <<SetRpm(rpm, command_ttl_ms)>>
             ELSE <<Stop>>

\* the motor calls made by cb_rpm_command, in order
rpm_command_calls(msg) ==
    IF Len(msg) <= self_index
    THEN <<Stop>>
    ELSE LET rpm == msg[self_index + 1]
         IN  IF rpm > 0
             THEN <<SetRpm(rpm, command_ttl_ms)>>
             ELSE <<Stop>>

\* the size test written as an assignment to self_index
cb_rpm_command_assigns_index ==
    /\ sub_rpm_command
    /\ \E msg \in RPMCommandMsgs :
         /\ self_index' = Len(msg)
         /\ out' = <<Stop>>
         /\ motor_idle' = TRUE
         /\ last' = [handler |-> "rpm", size |-> Len(msg), slot |-> 0, idle |-> motor_idle]
    /\ UNCHANGED <<publish_rate_ms, command_ttl_ms, max_dc_to_start, registrations,
                   timer_esc, prev_pub_ts, status_sent_ts>>

cb_rpm_command ==
    /\ sub_rpm_command
    /\ \E msg \in RPMCommandMsgs :
         LET calls == rpm_command_calls(msg)
         IN  /\ out' = calls
             /\ motor_idle' = motor_idle_after(calls, motor_idle)
             /\ last' = [handler |-> "rpm", size |-> Len(msg),
                         slot |-> IF Len(msg) <= self_index THEN 0 ELSE msg[self_index + 1],
                         idle |-> motor_idle]
    /\ UNCHANGED <<identity, registrations, timer_esc, prev_pub_ts, status_sent_ts>>

-----------------------------------------------------------------------------
(* The motor's own command timeout: a set-point that is not refreshed within *)
(* its TTL expires and the motor goes back to idle.                         *)

motor_ttl_expired ==
    /\ ~motor_idle
    /\ motor_idle' = TRUE
    /\ UNCHANGED <<identity, registrations, timer_esc, prev_pub_ts, status_sent_ts, last, out>>

-----------------------------------------------------------------------------
(* cb_esc *)

RPMFeedback(esc_index, rpm) == [type |-> "RPMFeedback", esc_index |-> esc_index, rpm |-> rpm]

\* static_cast<unsigned>(motor_get_duty_cycle() * 100 + 0.5F), duty cycle in thousandths
power_rating_pct_of(dc_thousandths) == (dc_thousandths * 100 + 500) \div 1000

\* the invalid reading passed on as it is
temperature_of_unchecked(reading) == Float(reading)

\* float(get_temperature_K()), replaced by quiet_NaN when negative
temperature_of(reading) == IF reading < 0 THEN NaN ELSE Float(reading)

Status(esc_index, dc_thousandths, temperature_K) ==
    [type |-> "Status", esc_index |-> esc_index,
     power_rating_pct |-> power_rating_pct_of(dc_thousandths),
     temperature |-> temperature_of(temperature_K)]

\* a full second in place of 990 ms
status_due_full_second(scheduled_time, prev) == toMSec(scheduled_time - prev) >= 1000

\* > 990 in place of >= 990
status_due_strict(scheduled_time, prev) == toMSec(scheduled_time - prev) > StatusIntervalMSec

\* (event.scheduled_time - prev_pub_ts).toMSec() >= 990
status_due(scheduled_time, prev) == toMSec(scheduled_time - prev) >= StatusIntervalMSec

\* the watermark moved on every tick
prev_pub_ts_after_every_tick(scheduled_time, prev) == scheduled_time

\* the value of prev_pub_ts when cb_esc returns
prev_pub_ts_after(scheduled_time, prev) ==
    IF status_due(scheduled_time, prev) THEN scheduled_time ELSE prev

\* Status broadcast ahead of RPMFeedback
esc_broadcasts_status_first(msg_rpm_fb, msg_status, due) ==
    IF due THEN <<msg_status, msg_rpm_fb>> ELSE <<msg_rpm_fb>>

\* the broadcasts made by cb_esc, in order
esc_broadcasts(msg_rpm_fb, msg_status, due) ==
    IF due THEN <<msg_rpm_fb, msg_status>> ELSE <<msg_rpm_fb>>

HasStatus(sent) == \E i \in 1..Len(sent) : sent[i].type = "Status"

\* the tick made to enforce the command timeout itself: motor_stop() on every tick
cb_esc_stops_motor ==
    /\ timer_esc.running
    /\ timer_esc.deadline <= MaxTime
    /\ LET scheduled_time == timer_esc.deadline
       IN  /\ \E rpm \in RpmReadings, dc \in DutyCycleReadings, temp \in TemperatureReadings :
                LET msg_rpm_fb == RPMFeedback(self_index, rpm)
                    msg_status == Status(self_index, dc, temp)
                    sent == esc_broadcasts(msg_rpm_fb, msg_status,
                                           status_due(scheduled_time, prev_pub_ts))
                IN  /\ out' = sent \o <<Stop>>
                    /\ status_sent_ts' = IF HasStatus(sent) THEN scheduled_time
                                                            ELSE status_sent_ts
                    /\ last' = [handler |-> "tick", scheduled_time |-> scheduled_time,
                                prev |-> prev_pub_ts, since |-> status_sent_ts,
                                rpm |-> rpm, temp |-> temp, status |-> msg_status]
           /\ prev_pub_ts' = prev_pub_ts_after(scheduled_time, prev_pub_ts)
           /\ timer_esc' = [timer_esc EXCEPT !.deadline = scheduled_time + fromMSec(publish_rate_ms)]
    /\ motor_idle' = TRUE
    /\ UNCHANGED <<identity, registrations>>

\* cb_esc invoked by the timer, the readbacks drawn from the given sets
esc_tick(rpms, dcs, temps) ==
    /\ timer_esc.running
    /\ timer_esc.deadline <= MaxTime
    /\ LET scheduled_time == timer_esc.deadline
       IN  /\ \E rpm \in rpms, dc \in dcs, temp \in temps :
                LET msg_rpm_fb == RPMFeedback(self_index, rpm)
                    msg_status == Status(self_index, dc, temp)
                    sent == esc_broadcasts(msg_rpm_fb, msg_status,
                                           status_due(scheduled_time, prev_pub_ts))
                IN  /\ out' = sent
                    /\ status_sent_ts' = IF HasStatus(sent) THEN scheduled_time
                                                            ELSE status_sent_ts
                    /\ last' = [handler |-> "tick", scheduled_time |-> scheduled_time,
                                prev |-> prev_pub_ts, since |-> status_sent_ts,
                                rpm |-> rpm, temp |-> temp, status |-> msg_status]
           /\ prev_pub_ts' = prev_pub_ts_after(scheduled_time, prev_pub_ts)
           \* uavcan::Timer re-arms a periodic timer at scheduled_time + period
           /\ timer_esc' = [timer_esc EXCEPT !.deadline = scheduled_time + fromMSec(publish_rate_ms)]
    /\ UNCHANGED <<identity, registrations, motor_idle>>

cb_esc == esc_tick(RpmReadings, DutyCycleReadings, TemperatureReadings)

-----------------------------------------------------------------------------
(* init_esc_controller *)

\* the four steps that can fail, in the order init_esc_controller performs them
InitOrder == <<"sub_raw_command.start", "sub_rpm_command.start",
               "pub_status.init", "pub_rpm_fb.init">>

\* the result of sub_rpm_command.start() not looked at
steps_passed_rpm_unchecked(results) ==
    IF results[1] # 0 THEN 0
    ELSE IF results[3] # 0 THEN 2
    ELSE IF results[4] # 0 THEN 3
    ELSE 4

\* how far init_esc_controller got: the number of steps that returned 0
steps_passed(results) ==
    IF results[1] # 0 THEN 0
    ELSE IF results[2] # 0 THEN 1
    ELSE IF results[3] # 0 THEN 2
    ELSE IF results[4] # 0 THEN 3
    ELSE 4

init_return(results) ==
    IF steps_passed(results) = 4 THEN 0 ELSE results[steps_passed(results) + 1]

\* the steps performed, each with its return value, in order
init_calls(results) ==
    LET n == steps_passed(results)
    IN  [i \in 1..(IF n = 4 THEN 4 ELSE n + 1) |-> [step |-> InitOrder[i], res |-> results[i]]]

\* subscriptions taken back when a later step fails
sub_started_rolled_back(n, step) == n = 4

\* a subscriber is started once its start() returned 0, and stays started
sub_started(n, step) == n >= step

\* the timer started ahead of pub_rpm_fb->init()
timer_started_early(n) == n >= 3

\* startPeriodic is reached only when all four steps returned 0
timer_started(n) == n = 4

init_esc_controller_from(rates, indexes, ttls, start_dcs, codes, starts) ==
    /\ init_result = <<>>
    /\ \E rate \in rates, index \in indexes, ttl \in ttls, start_dc \in start_dcs :
         /\ publish_rate_ms' = rate
         /\ self_index' = index
         /\ command_ttl_ms' = ttl
         /\ max_dc_to_start' = start_dc
         /\ \E results \in [1..4 -> codes], now \in starts :
              LET n == steps_passed(results)
              IN  \* a step is only reached when every earlier one returned 0
                  /\ \A i \in 1..4 : i > n + 1 => results[i] = 0
                  /\ sub_raw_command' = sub_started(n, 1)
                  /\ sub_rpm_command' = sub_started(n, 2)
                  /\ pub_status' = IF n >= 3 THEN "ready" ELSE IF n = 2 THEN "created" ELSE "null"
                  /\ pub_rpm_fb' = IF n >= 4 THEN "ready" ELSE IF n = 3 THEN "created" ELSE "null"
                  /\ timer_esc' = IF timer_started(n)
                                  THEN [running |-> TRUE, deadline |-> now + fromMSec(rate)]
                                  ELSE timer_esc
                  /\ init_result' = <<init_return(results)>>
                  /\ last' = [handler |-> "init", steps |-> n, calls |-> init_calls(results)]
    /\ out' = <<>>
    /\ UNCHANGED <<prev_pub_ts, motor_idle, status_sent_ts>>

init_esc_controller ==
    init_esc_controller_from(param_pub_rate_ms, param_esc_index, param_cmd_ttl_ms,
                             param_cmd_start_dc, ResultCodes, StartTimes)

-----------------------------------------------------------------------------

\* the watermark left at a stale non-zero value
Init_stale_watermark ==
    /\ publish_rate_ms = 0
    /\ self_index = 0
    /\ command_ttl_ms = 0
    /\ max_dc_to_start = Zero
    /\ sub_raw_command = FALSE
    /\ sub_rpm_command = FALSE
    /\ pub_status = "null"
    /\ pub_rpm_fb = "null"
    /\ timer_esc = [running |-> FALSE, deadline |-> 0]
    /\ init_result = <<>>
    /\ prev_pub_ts = 500000
    /\ motor_idle = TRUE
    /\ status_sent_ts = 0
    /\ last = [handler |-> "none"]
    /\ out = <<>>

Init ==
    /\ publish_rate_ms = 0
    /\ self_index = 0
    /\ command_ttl_ms = 0
    /\ max_dc_to_start = Zero
    /\ sub_raw_command = FALSE
    /\ sub_rpm_command = FALSE
    /\ pub_status = "null"
    /\ pub_rpm_fb = "null"
    /\ timer_esc = [running |-> FALSE, deadline |-> 0]
    /\ init_result = <<>>
    /\ prev_pub_ts = 0
    /\ motor_idle = TRUE
    /\ status_sent_ts = 0
    /\ last = [handler |-> "none"]
    /\ out = <<>>

Next ==
    \/ init_esc_controller
    \/ cb_raw_command
    \/ cb_rpm_command
    \/ cb_esc
    \/ motor_ttl_expired

Spec == Init /\ [][Next]_vars

-----------------------------------------------------------------------------
(* The whole int14 range: after a successful start-up, and possibly RPM     *)
(* commands that set the motor running, one raw command carrying any value  *)
(* the field can hold.                                                      *)

init_esc_controller_ok ==
    init_esc_controller_from({40}, {0}, param_cmd_ttl_ms, param_cmd_start_dc, {0}, {0})

cb_raw_command_any_value ==
    /\ last.handler \in {"init", "rpm"}
    /\ raw_command_step(RawRangeMsgs)

NextRawRange ==
    \/ init_esc_controller_ok
    \/ cb_rpm_command
    \/ cb_raw_command_any_value

SpecRawRange == Init /\ [][NextRawRange]_vars

-----------------------------------------------------------------------------
(* The timer alone, for every publish period the parameter allows.  Once    *)
(* started, the periodic timer keeps firing: its callback is weakly fair.   *)

PubRateMin == 1
PubRateMax == 100

init_esc_controller_any_rate ==
    init_esc_controller_from(PubRateMin..PubRateMax, {0}, {200}, {One}, {0}, StartTimes)

cb_esc_steady == esc_tick({3000}, {505}, {300})

NextTimer ==
    \/ init_esc_controller_any_rate
    \/ cb_esc_steady

SpecTimer == Init /\ [][NextTimer]_vars /\ WF_vars(cb_esc_steady)

-----------------------------------------------------------------------------
(* Properties of the command callbacks.  They are stated on the record of   *)
(* the most recent invocation: `last' holds what it read, `out' what it     *)
(* issued.                                                                  *)

RawHandled == last.handler = "raw"
RpmHandled == last.handler = "rpm"
SlotPresent == last.size > self_index
\* the normalised value of the node's slot of the message just handled
Scaled == Rat(last.slot, RawValueMax)
IsDirective(d) == d.type \in {"SetDutyCycle", "SetRpm", "Stop"}

\* C1: a raw command handled while the motor reports idle gives Stop when the
\* scaled slot value is in (max_dc_to_start, 1], and SetDutyCycle(scaled,
\* command_ttl_ms) when it is in (0, max_dc_to_start]; no SetDutyCycle above
\* max_dc_to_start is issued to a motor observed idle.
C1_StartupGate ==
    (RawHandled /\ SlotPresent /\ last.idle) =>
        /\ (RatLt(max_dc_to_start, Scaled) /\ RatLeq(Scaled, One)) => out = <<Stop>>
        /\ (RatLt(Zero, Scaled) /\ RatLeq(Scaled, max_dc_to_start)) =>
               out = <<SetDutyCycle(Scaled, command_ttl_ms)>>
        /\ \A i \in 1..Len(out) :
               out[i].type = "SetDutyCycle" => RatLeq(out[i].dc, max_dc_to_start)

C1_Witness ==
    /\ RawHandled /\ SlotPresent /\ last.idle
    /\ RatLt(max_dc_to_start, Scaled) /\ RatLeq(Scaled, One)
    /\ out = <<Stop>>

\* C2: a raw or RPM command with no slot for this node (size <= self_index,
\* the empty message included) gives Stop and nothing else, whether the motor
\* is idle or running.
C2_UndersizedStops ==
    ((RawHandled \/ RpmHandled) /\ ~SlotPresent) => out = <<Stop>>

C2_Witness ==
    /\ RpmHandled /\ ~SlotPresent /\ last.size > 0 /\ ~last.idle
    /\ out = <<Stop>>

\* C3: a raw command handled while the motor reports running gives
\* SetDutyCycle(scaled, command_ttl_ms) for every scaled value in (0, 1],
\* above max_dc_to_start included.
C3_RunningAcceptsAll ==
    (RawHandled /\ SlotPresent /\ ~last.idle /\ RatLt(Zero, Scaled) /\ RatLeq(Scaled, One)) =>
        out = <<SetDutyCycle(Scaled, command_ttl_ms)>>

C3_Witness ==
    /\ RawHandled /\ SlotPresent /\ ~last.idle
    /\ RatLt(max_dc_to_start, Scaled) /\ RatLeq(Scaled, One)
    /\ out = <<SetDutyCycle(Scaled, command_ttl_ms)>>

\* C4: a raw command whose scaled slot value is <= 0 gives Stop, idle or running.
C4_NonPositiveStops ==
    (RawHandled /\ SlotPresent /\ RatLeq(Scaled, Zero)) => out = <<Stop>>

C4_Witness ==
    /\ RawHandled /\ SlotPresent /\ ~last.idle /\ last.slot = 0
    /\ out = <<Stop>>

\* C5: an RPM command with a slot for this node gives Stop when rpm <= 0 and
\* SetRpm(rpm, command_ttl_ms) when rpm > 0, idle or running and whatever
\* max_dc_to_start is: the startup gate does not apply.
C5_RpmCommand ==
    (RpmHandled /\ SlotPresent) =>
        /\ last.slot <= 0 => out = <<Stop>>
        /\ last.slot > 0 => out = <<SetRpm(last.slot, command_ttl_ms)>>

C5_Witness ==
    /\ RpmHandled /\ SlotPresent /\ last.idle /\ last.slot > 0
    /\ RatLt(max_dc_to_start, One)
    /\ out = <<SetRpm(last.slot, command_ttl_ms)>>

\* C6: every invocation of cb_raw_command or cb_rpm_command issues exactly one
\* motor directive.
C6_ExactlyOneDirective ==
    (RawHandled \/ RpmHandled) => (Len(out) = 1 /\ IsDirective(out[1]))

C6_Witness ==
    /\ RawHandled /\ SlotPresent /\ Len(out) = 1 /\ out[1].type = "SetDutyCycle"

-----------------------------------------------------------------------------
(* Properties of the timer callback.  `last' holds the tick's scheduled     *)
(* time, the watermark (prev) and the time of the last Status broadcast     *)
(* (since) as they were when the tick began, and the readbacks it took.     *)

Ticked == last.handler = "tick"
StatusIntervalUSec == StatusIntervalMSec * 1000
\* the positions of out that hold a message of the given type
Positions(type) == {i \in 1..Len(out) : out[i].type = type}
\* a step of cb_esc: the only callback that re-arms the timer
TickStep == last'.handler = "tick" /\ timer_esc' # timer_esc

\* C7: a tick broadcasts Status iff at least 990 ms lie between its scheduled
\* time and the scheduled time of the last Status broadcast (time zero when
\* there was none); a tick 500 ms after the last Status broadcasts none.
C7_StatusDecimation ==
    Ticked =>
        /\ HasStatus(out) <=> (last.scheduled_time - last.since >= StatusIntervalUSec)
        /\ (last.scheduled_time - last.since = 500000) => ~HasStatus(out)

C7_Witness ==
    /\ Ticked /\ last.since > 0
    /\ last.scheduled_time - last.since = 500000
    /\ ~HasStatus(out)

\* C8: every tick broadcasts exactly one RPMFeedback {self_index, measured rpm},
\* whether or not it broadcasts Status, and ahead of the Status if there is one.
C8_FeedbackEveryTick ==
    Ticked =>
        /\ Cardinality(Positions("RPMFeedback")) = 1
        /\ out[1] = RPMFeedback(self_index, last.rpm)
        /\ \A i \in Positions("Status") : i > 1

C8_Witness ==
    /\ Ticked /\ ~HasStatus(out) /\ last.temp < 0 /\ last.rpm > 0
    /\ out = <<RPMFeedback(self_index, last.rpm)>>

\* C9: the watermark prev_pub_ts changes only in a tick that broadcasts Status,
\* which sets it to the tick's scheduled time; a tick that broadcasts none
\* leaves it alone.  Two consecutive Status broadcasts are at least 990 ms of
\* scheduled time apart, and a tick broadcasts at most one Status.
C9_WatermarkOnEmissionOnly ==
    /\ [][/\ (prev_pub_ts' # prev_pub_ts) => (TickStep /\ HasStatus(out'))
          /\ (TickStep /\ HasStatus(out')) => prev_pub_ts' = last'.scheduled_time
          /\ (TickStep /\ ~HasStatus(out')) => prev_pub_ts' = prev_pub_ts]_vars
    /\ [](Ticked =>
            /\ Cardinality(Positions("Status")) <= 1
            /\ (HasStatus(out) /\ last.since > 0) =>
                   last.scheduled_time - last.since >= StatusIntervalUSec)

C9_Witness ==
    /\ Ticked /\ HasStatus(out) /\ last.since > 0
    /\ prev_pub_ts = last.scheduled_time
    /\ last.prev = last.since

\* C10: a negative temperature reading gives a Status whose temperature is NaN
\* and suppresses nothing: RPMFeedback is broadcast, and the Status assembled
\* is broadcast exactly when 990 ms have passed since the watermark.  A
\* non-negative reading is carried unchanged.
C10_InvalidTemperature ==
    Ticked =>
        /\ last.temp < 0 => last.status.temperature = NaN
        /\ last.temp >= 0 => last.status.temperature = Float(last.temp)
        /\ \E i \in 1..Len(out) : out[i].type = "RPMFeedback"
        /\ HasStatus(out) <=> (last.scheduled_time - last.prev >= StatusIntervalUSec)
        /\ \A i \in Positions("Status") : out[i] = last.status

C10_Witness ==
    /\ Ticked /\ last.temp < 0 /\ HasStatus(out)
    /\ out[2].temperature = NaN
    /\ out[1].type = "RPMFeedback"

-----------------------------------------------------------------------------
(* Properties of init_esc_controller.  `last' holds the steps it performed  *)
(* with their return values.                                                *)

InitHandled == last.handler = "init"
InitFailed == init_result # <<>> /\ init_result # <<0>>

\* C11: init_esc_controller performs raw subscription, RPM subscription, status
\* publisher init, feedback publisher init in this order; the first non-zero
\* result is returned and no later step is performed; the timer is started and
\* 0 returned only when all four steps returned 0.
C11_InitPropagation ==
    /\ InitHandled =>
          LET calls == last.calls
              k == Len(calls)
              order == <<"sub_raw_command.start", "sub_rpm_command.start",
                         "pub_status.init", "pub_rpm_fb.init">>
          IN  /\ k \in 1..4
              /\ \A i \in 1..k : calls[i].step = order[i]
              /\ \A i \in 1..(k - 1) : calls[i].res = 0
              /\ calls[k].res # 0 => (init_result = <<calls[k].res>> /\ ~timer_esc.running)
              /\ calls[k].res = 0 => (k = 4 /\ init_result = <<0>> /\ timer_esc.running)
    /\ timer_esc.running => init_result = <<0>>

C11_Witness ==
    /\ InitHandled /\ Len(last.calls) = 3
    /\ last.calls[3].res = -2
    /\ init_result = <<-2>>
    /\ ~timer_esc.running

-----------------------------------------------------------------------------
(* Properties of the values handed to the motor *)

\* C12: every SetDutyCycle carries a value in (0, 1] and every SetRpm an rpm > 0,
\* and both carry command_ttl_ms, which lies in [100, 5000], for every int14
\* slot value and either motor state.
C12_DirectivePreconditions ==
    (RawHandled \/ RpmHandled) =>
        \A i \in 1..Len(out) :
            /\ out[i].type = "SetDutyCycle" =>
                   /\ RatLt(Zero, out[i].dc) /\ RatLeq(out[i].dc, One)
                   /\ out[i].ttl = command_ttl_ms
                   /\ out[i].ttl >= 100 /\ out[i].ttl <= 5000
            /\ out[i].type = "SetRpm" =>
                   /\ out[i].rpm \in Int /\ out[i].rpm > 0
                   /\ out[i].ttl = command_ttl_ms
                   /\ out[i].ttl >= 100 /\ out[i].ttl <= 5000

C12_Witness ==
    /\ RawHandled /\ last.slot = RawValueMax /\ ~last.idle
    /\ RatLeq(One, last.scaled)
    /\ out = <<SetDutyCycle(last.scaled, command_ttl_ms)>>
    /\ command_ttl_ms = 5000

\* C14 as claimed: the normalised value cb_raw_command computes lies in [-1, 1]
\* for every int14 slot value.
C14_ScaledWithinUnit ==
    (RawHandled /\ SlotPresent) =>
        (RatLeq(Rat(-1, 1), last.scaled) /\ RatLeq(last.scaled, One))

\* C14 amended: the normalised value lies in [-8192/8191, 1] for every int14
\* slot value; it lies in [-1, 1] for every value but -8192, for which it is
\* -8192/8191, just below -1.
C14_ScaledRange ==
    (RawHandled /\ SlotPresent) =>
        /\ RatLeq(Rat(-8192, 8191), last.scaled) /\ RatLeq(last.scaled, One)
        /\ last.slot # -8192 => RatLeq(Rat(-1, 1), last.scaled)
        /\ last.slot = -8192 => (last.scaled.num * 8191 = -8192 * last.scaled.den)

C14_Witness ==
    /\ RawHandled /\ SlotPresent /\ last.slot = -8192
    /\ RatLt(last.scaled, Rat(-1, 1))
    /\ out = <<Stop>>

-----------------------------------------------------------------------------
(* Properties of the configuration *)

\* a step of init_esc_controller
InitStep == init_result = <<>> /\ init_result' # <<>>

\* C13: publish_rate_ms, self_index, command_ttl_ms and max_dc_to_start are
\* written by init_esc_controller only: no command or tick changes them, and
\* every directive and report carries the configured command_ttl_ms and
\* self_index.
C13_IdentityWrittenOnce ==
    /\ [][(identity' # identity) => InitStep]_vars
    /\ [](\A i \in 1..Len(out) :
            /\ out[i].type \in {"SetDutyCycle", "SetRpm"} => out[i].ttl = command_ttl_ms
            /\ out[i].type \in {"RPMFeedback", "Status"} => out[i].esc_index = self_index)

C13_Witness ==
    /\ RpmHandled /\ self_index = 1 /\ publish_rate_ms = 100
    /\ max_dc_to_start = Rat(5, 100)
    /\ out = <<SetRpm(100, 5000)>>
    /\ status_sent_ts > 0

-----------------------------------------------------------------------------
(* Properties across the callbacks *)

IsReport(m) == m.type \in {"RPMFeedback", "Status"}
\* a step after which the record is that of a command callback
CommandStep == last'.handler \in {"raw", "rpm"}

\* C15: the command callbacks leave the watermark and the timer alone and
\* broadcast no report; the tick callback issues no motor directive and leaves
\* the configuration, the registrations and the motor state alone.  What a tick
\* broadcasts is fixed by its scheduled time and the time of the last Status,
\* what a command callback issues by the message, the motor's idle state and
\* the configuration.
C15_HandlerOwnership ==
    /\ [][/\ CommandStep =>
               /\ prev_pub_ts' = prev_pub_ts
               /\ status_sent_ts' = status_sent_ts
               /\ timer_esc' = timer_esc
          /\ TickStep =>
               /\ motor_idle' = motor_idle
               /\ identity' = identity
               /\ registrations' = registrations]_vars
    /\ []((RawHandled \/ RpmHandled) => \A i \in 1..Len(out) : IsDirective(out[i]))
    /\ [](Ticked =>
            /\ \A i \in 1..Len(out) : IsReport(out[i])
            /\ Len(out) = (IF last.scheduled_time - last.since >= StatusIntervalUSec
                           THEN 2 ELSE 1))

C15_Witness ==
    /\ Ticked /\ HasStatus(out) /\ ~motor_idle
    /\ prev_pub_ts = last.scheduled_time
    /\ last.since > 0

\* C16: with the motor idle after Stop or expiry and running after a set-point,
\* the motor leaves idle only by a SetDutyCycle at or below max_dc_to_start or
\* by a SetRpm with rpm > 0; a SetDutyCycle above max_dc_to_start is issued
\* only to a motor that was already running.
C16_ColdStartGated ==
    /\ [][(motor_idle /\ ~motor_idle') =>
            \/ /\ last'.handler = "raw" /\ Len(out') = 1
               /\ out'[1].type = "SetDutyCycle"
               /\ RatLeq(out'[1].dc, max_dc_to_start)
            \/ /\ last'.handler = "rpm" /\ Len(out') = 1
               /\ out'[1].type = "SetRpm"
               /\ out'[1].rpm > 0]_vars
    /\ [](\A i \in 1..Len(out) :
            (out[i].type = "SetDutyCycle" /\ RatLt(max_dc_to_start, out[i].dc)) =>
                (RawHandled /\ ~last.idle))

C16_Witness ==
    /\ RawHandled /\ ~last.idle /\ ~motor_idle
    /\ Len(out) = 1 /\ out[1].type = "SetDutyCycle"
    /\ RatLt(max_dc_to_start, out[1].dc)

-----------------------------------------------------------------------------
(* Properties of the first Status *)

\* C17: the watermark is zero until a Status has been broadcast, so the first
\* Status goes out on the first tick scheduled at or after 990 ms; every tick
\* scheduled before 990 ms broadcasts RPMFeedback alone.
C17_FirstStatus ==
    /\ status_sent_ts = 0 => prev_pub_ts = 0
    /\ (Ticked /\ last.since = 0) =>
          /\ last.prev = 0
          /\ HasStatus(out) <=> last.scheduled_time >= StatusIntervalUSec
    /\ (Ticked /\ last.scheduled_time < StatusIntervalUSec) =>
          out = <<RPMFeedback(self_index, last.rpm)>>

C17_Witness ==
    /\ Ticked /\ last.since = 0 /\ HasStatus(out)
    /\ last.scheduled_time = 1000000
    /\ publish_rate_ms = 40

-----------------------------------------------------------------------------
(* Properties of the Status cadence under an exactly periodic timer *)

StatusSent == Ticked /\ HasStatus(out)
\* the tick that has to broadcast the next Status is not past the horizon
Room == status_sent_ts + StatusIntervalUSec + fromMSec(publish_rate_ms) <= MaxTime

\* C18: with ticks exactly publish_rate_ms apart (1..100 ms), a Status follows
\* the start of the timer and every Status; two consecutive Status broadcasts
\* are at least 990 ms and less than 990 ms + publish_rate_ms apart, which is
\* exactly 1000 ms at the default 40 ms.
C18_StatusCadence ==
    /\ [](Ticked =>
            LET gap == last.scheduled_time - last.since
            IN  /\ ~HasStatus(out) => gap < StatusIntervalUSec
                /\ (HasStatus(out) /\ last.since > 0) =>
                       /\ gap >= StatusIntervalUSec
                       /\ gap < StatusIntervalUSec + publish_rate_ms * 1000
                       /\ publish_rate_ms = 40 => gap = 1000000)
    /\ (timer_esc.running /\ ~StatusSent /\ Room) ~> StatusSent
    /\ (StatusSent /\ Room) ~> (Ticked /\ ~HasStatus(out) /\ Room)

C18_Witness ==
    /\ StatusSent /\ last.since > 0
    /\ publish_rate_ms = 7
    /\ last.scheduled_time - last.since = 994000

-----------------------------------------------------------------------------
(* Properties of a failed start-up *)

\* C19: the timer runs, and so cb_esc is invoked, only when both publishers
\* were created and their init returned 0; a failed init_esc_controller is
\* followed by no RPMFeedback and no Status.
C19_TickNeedsPublishers ==
    /\ timer_esc.running => (pub_status = "ready" /\ pub_rpm_fb = "ready")
    /\ Ticked => (pub_status = "ready" /\ pub_rpm_fb = "ready" /\ init_result = <<0>>)
    /\ InitFailed =>
          /\ ~timer_esc.running
          /\ ~Ticked
          /\ status_sent_ts = 0
          /\ \A i \in 1..Len(out) : ~IsReport(out[i])

C19_Witness ==
    /\ InitFailed /\ pub_status = "ready" /\ pub_rpm_fb = "created"
    /\ RawHandled /\ Len(out) = 1

\* C20: a failed init_esc_controller takes nothing back: when the RPM
\* subscription or a publisher init fails the raw subscription stays started,
\* and so does the RPM subscription if it had been; a command received after
\* the failure still makes the callback issue a directive.
C20_NoRollback ==
    /\ [](InitHandled =>
            /\ Len(last.calls) >= 2 => sub_raw_command
            /\ Len(last.calls) >= 3 => sub_rpm_command)
    /\ [][(sub_raw_command => sub_raw_command') /\ (sub_rpm_command => sub_rpm_command')]_vars
    /\ []((InitFailed /\ (RawHandled \/ RpmHandled)) =>
            (Len(out) = 1 /\ IsDirective(out[1])))

C20_Witness ==
    /\ InitFailed /\ sub_raw_command /\ ~sub_rpm_command
    /\ RawHandled /\ SlotPresent
    /\ out = <<SetDutyCycle(Scaled, command_ttl_ms)>>
    /\ ~motor_idle

====
